---------------------------- MODULE Spec2Model ----------------------------
(***************************************************************************)
(* A model of the demonstration tests of python-box (py3/lib/asyncio,      *)
(* py3/lib/io, py3/built-ins and py3/codecs).  Every test is a sequential  *)
(* main thread (pc) that drives an asyncio event loop, a child process, a  *)
(* file descriptor table, a BytesIO buffer or the bytearray constructor.   *)
(* The variable test selects the test that is run; the other variables    *)
(* are the state that test touches.                                        *)
(*                                                                         *)
(* Time is counted in ticks of 0.1 s.  Computation takes no time: the      *)
(* clock advances only in time.sleep and while the event loop is idle.     *)
(* What the operating system decides (when a child exits, when its exit    *)
(* is reported) is nondeterministic.                                       *)
(***************************************************************************)
EXTENDS Integers, Sequences, FiniteSets, TLC

VARIABLES
    test,       \* the test method that is run
    pc,         \* the main thread's position in that test
    now,        \* time.monotonic() / loop.time(), in ticks
    running,    \* the event loop is inside run_forever
    stopping,   \* loop._stopping
    batch,      \* handles left in the current _run_once (ntodo)
    ready,      \* loop._ready, FIFO of handles
    timers,     \* loop._scheduled
    root,       \* the future run_until_complete waits for
    task,       \* the asyncio.Task objects
    fut,        \* the plain asyncio.Future objects
    raised,     \* the exception the test's driver call let escape
    strbuf,     \* _Demo.strbuf
    upd_i,      \* the loop variable i of update_str
    wf,         \* the locals of _wait_for
    timedOut,   \* the two results of _wait_for
    events,     \* test_cancel_subprocess: events
    canceled,   \* test_cancel_subprocess: canceled
    cnt,        \* the nonlocal counters A (task_demo) and N (coroutine_demo)
    bodyRuns,   \* how often a coroutine body was entered
    result,     \* the value asyncio.run returned
    errmsg,     \* str(e) of the RuntimeError caught
    child,      \* the child process
    proc,       \* the asyncio subprocess transport, protocol and stdin pipe
    fdtab,      \* the open file descriptors of the process
    rd,         \* the buffered reader of TestFileIO
    fio,        \* the FileIO of TestFileIO
    bio,        \* the BytesIO of TestBytesIO
    view,       \* what was read and written through BytesIO.getbuffer()
    r1,         \* the argument and the result of read1
    ba          \* the arguments and the outcome of bytearray(source, ...)

loopVars == <<now, running, stopping, batch, ready, timers, root, task, fut>>
taskTestVars == <<strbuf, upd_i, wf, timedOut, events, canceled, cnt, bodyRuns,
                  result, errmsg>>
procVars == <<child, proc>>
ioVars == <<fdtab, rd, fio, bio, view, r1, ba>>
vars == <<test, pc, raised, loopVars, taskTestVars, procVars, ioVars>>

----------------------------------------------------------------------------
(* Bounds of the model. *)

\* The clock stops advancing here; every test is over long before.
MaxTime == 64
\* The highest descriptor that may be open before the test opens its file.
MaxFd == 5
\* The longest bytes object the BytesIO tests draw.
MaxBytesLen == 3
\* How many assignments are made through one memoryview.
MaxWrites == 2
\* The longest source string the bytearray tests draw besides their literals.
MaxStrLen == 3

----------------------------------------------------------------------------
(* Constants of the tests, in ticks of 0.1 s where they are durations. *)

\* update_str(N=3)
UpdateN == 3
\* await asyncio.sleep(0.5) in update_str
UpdateSleep == 5
\* sleep_s = 0.1 of _wait_for
SleepS == 1
\* timeout_s = 3 of _wait_for
TimeoutS == 30
\* await asyncio.sleep(1) in _main
MainSleep == 10
\* _sleep(300): the child runs "sleep 300"
SleepChildLife == 3000
\* "sleep", "5" in _cancel_error
CancelChildLife == 50
\* the child "true" of _connection_reset_error exits as soon as it runs
TrueChildLife == 0

----------------------------------------------------------------------------
(* Values. *)

Tests == {"noloop", "norun", "cancel", "cancelerr", "connreset", "coro", "run",
          "closefd", "getbuffer", "read1", "bytearray"}

TaskNames == {"upd", "drv", "incA", "main", "slp", "conn", "wt", "incN", "inc"}
FutNames == {"sleep_upd", "sleep_drv", "sleep_main", "waiter", "waiter2", "exitw"}

NoTask == [pc |-> "none", st |-> "none", mustCancel |-> FALSE, wait |-> "none",
           exc |-> "none"]
NewTask == [pc |-> "start", st |-> "pending", mustCancel |-> FALSE, wait |-> "none",
            exc |-> "none"]

Step(t) == [k |-> "step", a |-> t]
Timer(f) == [k |-> "timer", a |-> f]
Cb(c) == [k |-> "cb", a |-> c]

Digits == <<"0", "1", "2", "3", "4", "5", "6", "7", "8", "9">>

RECURSIVE Str(_)
\* str(i) of a non-negative int, as the sequence of its characters
Str(i) == IF i < 10 THEN <<Digits[i + 1]>>
          ELSE Str(i \div 10) \o <<Digits[(i % 10) + 1]>>

\* math.ceil(a / b) for positive ints
CeilDiv(a, b) == (a + b - 1) \div b

\* iterations = math.ceil(timeout_s / sleep_s)
Iterations == CeilDiv(TimeoutS, SleepS)

IsPrefix(s, t) == Len(s) <= Len(t) /\ \A i \in 1..Len(s) : s[i] = t[i]

\* Every order in which the members of a finite set can be listed.
Orders(S) == {s \in [1..Cardinality(S) -> S] :
                 \A i, j \in 1..Cardinality(S) : i # j => s[i] # s[j]}

----------------------------------------------------------------------------
(* The event loop, its futures and its tasks. *)

\* Future.done() / cancelled() of a plain future or of a task
AwState(tk, ft, a) ==
    IF a \in TaskNames
    THEN (IF tk[a].st = "failed" THEN "done" ELSE tk[a].st)
    ELSE ft[a]

\* The __wakeup callbacks of the tasks that await a, in the order they were added.
Wakeups(tk, a) ==
    LET W == {t \in TaskNames : tk[t].st = "pending" /\ tk[t].wait = a}
    IN  IF W = {} THEN <<>> ELSE LET o == CHOOSE s \in Orders(W) : TRUE
                                 IN  [i \in 1..Len(o) |-> Step(o[i])]

\* The done callbacks of task t: the tasks awaiting it, and run_until_complete's.
DoneCallbacks(tk, t) ==
    Wakeups(tk, t) \o (IF root = t THEN <<Cb("stop")>> ELSE <<>>)

\* Task.__step: what is thrown into the coroutine of t when it is resumed.
Thrown(t) ==
    \/ task[t].mustCancel
    \/ task[t].wait # "none" /\ AwState(task, fut, task[t].wait) = "cancelled"

\* Task.__step: the coroutine returned (StopIteration).
Returned(tk, t) ==
    [tk EXCEPT ![t] = [pc |-> "end",
                       st |-> IF tk[t].mustCancel THEN "cancelled" ELSE "done",
                       mustCancel |-> FALSE, wait |-> "none", exc |-> "none"]]

\* Task.__step: the coroutine raised e; a CancelledError cancels the task.
Raised(tk, t, e) ==
    [tk EXCEPT ![t] = [pc |-> "end",
                       st |-> IF e = "CancelledError" THEN "cancelled" ELSE "failed",
                       mustCancel |-> FALSE, wait |-> "none", exc |-> e]]

\* Task.__step: the coroutine awaits the pending awaitable a.
Blocked(tk, t, a, next) ==
    [tk EXCEPT ![t] = [pc |-> next, st |-> "pending", mustCancel |-> FALSE, wait |-> a,
                       exc |-> "none"]]

\* loop.create_task(coro): a task whose first step is scheduled with call_soon.
CreateTask(tk, t) == [tk EXCEPT ![t] = NewTask]

\* Head of the current batch
Cur == Head(ready)

CanRun(h) == running /\ batch > 0 /\ ready # <<>> /\ Cur = h

\* ready after the current handle has run and scheduled hs with call_soon
After(hs) == Tail(ready) \o hs

\* events the selector reports: the write pipe's reader sees the hang-up
IoEvents ==
    IF proc.reader /\ child.st = "exited" THEN <<Cb("read_ready")>> ELSE <<>>

DueTimers == {x \in timers : x.when <= now}

\* BaseEventLoop._run_once up to the point where the handles are run
Select ==
    /\ running /\ batch = 0 /\ ~stopping
    /\ (ready # <<>> \/ DueTimers # {} \/ IoEvents # <<>>)
    /\ \E ord \in Orders(DueTimers) :
          ready' = ready \o IoEvents \o [i \in 1..Len(ord) |-> Timer(ord[i].f)]
    /\ timers' = timers \ DueTimers
    /\ batch' = Len(ready')
    /\ proc' = IF IoEvents # <<>> THEN [proc EXCEPT !.reader = FALSE] ELSE proc
    /\ UNCHANGED <<test, pc, raised, now, running, stopping, root, task, fut,
                   taskTestVars, child, ioVars>>

\* the selector waits: nothing is ready and no timer is due
Tick ==
    /\ running /\ batch = 0 /\ ~stopping
    /\ ready = <<>> /\ DueTimers = {} /\ IoEvents = <<>>
    /\ now < MaxTime
    /\ now' = now + 1
    /\ UNCHANGED <<test, pc, raised, running, stopping, batch, ready, timers, root,
                   task, fut, taskTestVars, procVars, ioVars>>

\* futures._set_result_unless_cancelled, the callback of call_later in asyncio.sleep
RunTimer ==
    /\ running /\ batch > 0 /\ ready # <<>> /\ Cur.k = "timer"
    /\ LET f == Cur.a
       IN  IF fut[f] = "pending"
           THEN /\ fut' = [fut EXCEPT ![f] = "done"]
                /\ ready' = After(Wakeups(task, f))
           ELSE /\ ready' = After(<<>>)
                /\ UNCHANGED fut
    /\ batch' = batch - 1
    /\ UNCHANGED <<test, pc, raised, now, running, stopping, timers, root, task,
                   taskTestVars, procVars, ioVars>>

\* _run_until_complete_cb: loop.stop()
RunStop ==
    /\ CanRun(Cb("stop"))
    /\ stopping' = TRUE
    /\ ready' = After(<<>>)
    /\ batch' = batch - 1
    /\ UNCHANGED <<test, pc, raised, now, running, timers, root, task, fut,
                   taskTestVars, procVars, ioVars>>


\* asyncio.sleep(d), d > 0, awaited by task t: call_later and a future to wait on
SleepTimers(f, d) == timers \cup {[when |-> now + d, f |-> f]}

\* BaseEventLoop.run_until_complete(t): add the done callback and run the loop
RunUntilComplete(t, next) ==
    /\ root' = t
    /\ running' = TRUE
    /\ stopping' = FALSE
    /\ batch' = 0
    /\ pc' = next

\* where the main thread goes on when run_until_complete returns normally
Continue(p) ==
    CASE p = "wf_ruc" -> "wf_check"
      [] p = "nl_ruc" -> "nl_after"
      [] p = "cs_ruc" -> "cs_after"
      [] p = "co_run" -> "co_after"
      [] p = "rn_run" -> "rn_after"
      [] OTHER -> "done"

\* what run_until_complete raises when the loop has stopped
Outcome(t) ==
    CASE task[t].st = "pending" -> "RuntimeError"
      [] task[t].st = "cancelled" -> "CancelledError"
      [] task[t].st = "failed" -> task[t].exc
      [] OTHER -> "none"

\* run_forever leaves its loop after the iteration in which stop() was called;
\* run_until_complete returns the future's result or raises its exception
LoopStop ==
    /\ running /\ batch = 0 /\ stopping
    /\ running' = FALSE
    /\ stopping' = FALSE
    /\ root' = "none"
    /\ raised' = Outcome(root)
    /\ pc' = IF Outcome(root) = "none" THEN Continue(pc) ELSE "done"
    /\ UNCHANGED <<test, now, batch, ready, timers, task, fut, taskTestVars,
                   procVars, ioVars>>

----------------------------------------------------------------------------
(* task_demo.py: test_creating_does_not_run_a_task *)

Expected == <<"0", "1", "2">>

\* d = _Demo(); coro = d.update_str(N=3); t = event_loop.create_task(coro);
\* then the first call of _wait_for, with sync_sleep=True
NrStart ==
    /\ test = "norun" /\ pc = "start"
    /\ strbuf' = <<>>
    /\ task' = CreateTask(task, "upd")
    /\ ready' = Append(ready, Step("upd"))
    /\ wf' = [i |-> 0, timed_out |-> TRUE, sync |-> TRUE, phase |-> 1]
    /\ pc' = "wf_iter"
    /\ UNCHANGED <<test, raised, now, running, stopping, batch, timers, root, fut,
                   upd_i, timedOut, events, canceled, cnt, bodyRuns, result, errmsg,
                   procVars, ioVars>>

\* _wait_for: time.sleep(sleep_s) of one iteration
WfSyncSleep ==
    /\ pc = "wf_iter" /\ wf.sync /\ wf.i < Iterations
    /\ now' = now + SleepS
    /\ pc' = "wf_check"
    /\ UNCHANGED <<test, raised, running, stopping, batch, ready, timers, root, task,
                   fut, taskTestVars, procVars, ioVars>>

\* _wait_for: event_loop.run_until_complete(asyncio.sleep(sleep_s))
WfAsyncSleep ==
    /\ pc = "wf_iter" /\ ~wf.sync /\ wf.i < Iterations
    /\ task' = CreateTask(task, "drv")
    /\ ready' = Append(ready, Step("drv"))
    /\ RunUntilComplete("drv", "wf_ruc")
    /\ UNCHANGED <<test, raised, now, timers, fut, taskTestVars, procVars, ioVars>>

\* _check_completion
CheckCompletion(expected) == strbuf = expected

\* _wait_for: if check(): timed_out = False; break
WfCheck ==
    /\ pc = "wf_check"
    /\ IF CheckCompletion(Expected)
       THEN /\ wf' = [wf EXCEPT !.timed_out = FALSE]
            /\ pc' = "wf_ret"
       ELSE /\ wf' = [wf EXCEPT !.i = wf.i + 1]
            /\ pc' = "wf_iter"
    /\ UNCHANGED <<test, raised, loopVars, strbuf, upd_i, timedOut, events, canceled,
                   cnt, bodyRuns, result, errmsg, procVars, ioVars>>

\* _wait_for: the for loop ran out
WfExhausted ==
    /\ pc = "wf_iter" /\ wf.i >= Iterations
    /\ pc' = "wf_ret"
    /\ UNCHANGED <<test, raised, loopVars, taskTestVars, procVars, ioVars>>

\* return timed_out, and the assertions that follow the call
WfReturn ==
    /\ pc = "wf_ret"
    /\ timedOut' = Append(timedOut, wf.timed_out)
    /\ IF wf.phase = 1
       THEN IF wf.timed_out /\ strbuf = <<>>
            THEN /\ wf' = [i |-> 0, timed_out |-> TRUE, sync |-> FALSE, phase |-> 2]
                 /\ pc' = "wf_iter"
                 /\ UNCHANGED raised
            ELSE /\ raised' = "AssertionError"
                 /\ pc' = "done"
                 /\ UNCHANGED wf
       ELSE /\ raised' = IF ~wf.timed_out /\ strbuf = Expected
                         THEN raised ELSE "AssertionError"
            /\ pc' = "done"
            /\ UNCHANGED wf
    /\ UNCHANGED <<test, loopVars, strbuf, upd_i, events, canceled, cnt, bodyRuns,
                   result, errmsg, procVars, ioVars>>

\* a write that puts the new text in front of the old
StrbufWritePrepend(buf, i) == Str(i) \o buf

\* self.strbuf.write(str(i))
StrbufWrite(buf, i) == buf \o Str(i)

\* one step of update_str: up to the next await asyncio.sleep(0.5), or to its end
StepUpd ==
    /\ CanRun(Step("upd")) /\ task["upd"].st = "pending"
    /\ IF upd_i < UpdateN
       THEN /\ strbuf' = StrbufWrite(strbuf, upd_i)
            /\ upd_i' = upd_i + 1
            /\ fut' = [fut EXCEPT !["sleep_upd"] = "pending"]
            /\ timers' = SleepTimers("sleep_upd", UpdateSleep)
            /\ task' = Blocked(task, "upd", "sleep_upd", "loop")
            /\ ready' = After(<<>>)
       ELSE /\ task' = Returned(task, "upd")
            /\ ready' = After(DoneCallbacks(task, "upd"))
            /\ UNCHANGED <<strbuf, upd_i, fut, timers>>
    /\ batch' = batch - 1
    /\ UNCHANGED <<test, pc, raised, now, running, stopping, root, wf, timedOut,
                   events, canceled, cnt, bodyRuns, result, errmsg, procVars, ioVars>>

\* the task that run_until_complete wraps around asyncio.sleep(sleep_s)
StepDrv ==
    /\ CanRun(Step("drv")) /\ task["drv"].st = "pending"
    /\ IF task["drv"].pc = "start"
       THEN /\ fut' = [fut EXCEPT !["sleep_drv"] = "pending"]
            /\ timers' = SleepTimers("sleep_drv", SleepS)
            /\ task' = Blocked(task, "drv", "sleep_drv", "slept")
            /\ ready' = After(<<>>)
       ELSE /\ task' = Returned(task, "drv")
            /\ ready' = After(DoneCallbacks(task, "drv"))
            /\ UNCHANGED <<fut, timers>>
    /\ batch' = batch - 1
    /\ UNCHANGED <<test, pc, raised, now, running, stopping, root, taskTestVars,
                   procVars, ioVars>>

----------------------------------------------------------------------------
(* task_demo.py: test_creating_without_a_running_loop *)

\* incA(2) and incN(2)
IncArg == 2

\* a get_running_loop that falls back to some loop
GetRunningLoopAny == "loop"

\* events.get_running_loop(), which asyncio.create_task calls first
GetRunningLoop == IF running THEN "loop" ELSE "RuntimeError"

\* A = 1; try: asyncio.create_task(incA(2)) except RuntimeError as e: assertIn(...)
NlStart ==
    /\ test = "noloop" /\ pc = "start"
    /\ cnt' = 1
    /\ IF GetRunningLoop = "RuntimeError"
       THEN /\ errmsg' = "no running event loop"
            /\ UNCHANGED <<task, ready>>
       ELSE /\ task' = CreateTask(task, "incA")
            /\ ready' = Append(ready, Step("incA"))
            /\ UNCHANGED errmsg
    /\ pc' = "nl_assert1"
    /\ UNCHANGED <<test, raised, now, running, stopping, batch, timers, root, fut,
                   strbuf, upd_i, wf, timedOut, events, canceled, bodyRuns, result,
                   procVars, ioVars>>

\* assertEqual(A, 1); event_loop = asyncio.new_event_loop();
\* t = event_loop.create_task(incA(2)); event_loop.run_until_complete(t)
NlRun ==
    /\ pc = "nl_assert1"
    /\ IF cnt = 1
       THEN /\ task' = CreateTask(task, "incA")
            /\ ready' = <<Step("incA")>>
            /\ RunUntilComplete("incA", "nl_ruc")
            /\ UNCHANGED raised
       ELSE /\ raised' = "AssertionError"
            /\ pc' = "done"
            /\ UNCHANGED <<task, ready, root, running, stopping, batch>>
    /\ UNCHANGED <<test, now, timers, fut, taskTestVars, procVars, ioVars>>

\* the body of incA: nonlocal A; A += n; return A
StepIncA ==
    /\ CanRun(Step("incA")) /\ task["incA"].st = "pending"
    /\ cnt' = cnt + IncArg
    /\ result' = cnt + IncArg
    /\ bodyRuns' = bodyRuns + 1
    /\ task' = Returned(task, "incA")
    /\ ready' = After(DoneCallbacks(task, "incA"))
    /\ batch' = batch - 1
    /\ UNCHANGED <<test, pc, raised, now, running, stopping, timers, root, fut,
                   strbuf, upd_i, wf, timedOut, events, canceled, errmsg,
                   procVars, ioVars>>

\* assertEqual(A, 3)
NlAfter ==
    /\ pc = "nl_after"
    /\ raised' = IF cnt = 3 THEN raised ELSE "AssertionError"
    /\ pc' = "done"
    /\ UNCHANGED <<test, loopVars, taskTestVars, procVars, ioVars>>

----------------------------------------------------------------------------
(* Child processes and asyncio's subprocess transport. *)

NoChild == [st |-> "none", exitAt |-> 0, signals |-> <<>>, reported |-> FALSE,
            stdin |-> <<>>]
NoProc == [returncode |-> "none", reader |-> FALSE, closing |-> FALSE,
           connLost |-> FALSE, pipes |-> {}, disconnected |-> {}, pending |-> TRUE,
           finished |-> FALSE]

\* subprocess.Popen inside create_subprocess_exec: the child runs from now on
Spawned(life) == [NoChild EXCEPT !.st = "running", !.exitAt = now + life]

\* the transport of a new child, with the pipes that are to be connected
NewProc(pipes) == [NoProc EXCEPT !.pipes = pipes]

\* BaseSubprocessTransport._try_finish: the handles it schedules
TryFinish(pr) ==
    IF pr.returncode # "none" /\ ~pr.finished /\ pr.pipes \subseteq pr.disconnected
    THEN <<Cb("conn_lost")>> ELSE <<>>

\* the child ends: its program has run for its time, or a signal killed it
ChildExit ==
    /\ child.st = "running"
    /\ now >= child.exitAt \/ child.signals # <<>>
    /\ child' = [child EXCEPT !.st = "exited"]
    /\ UNCHANGED <<test, pc, raised, loopVars, taskTestVars, proc, ioVars>>

\* the child watcher's thread: waitpid returned, callback handed to the loop
WatcherNotify ==
    /\ child.st = "exited" /\ ~child.reported
    /\ pc # "done"
    /\ child' = [child EXCEPT !.reported = TRUE]
    /\ ready' = Append(ready, Cb("child_watcher"))
    /\ UNCHANGED <<test, pc, raised, now, running, stopping, batch, timers, root,
                   task, fut, taskTestVars, proc, ioVars>>

\* _UnixSelectorEventLoop._child_watcher_callback
RunChildWatcher ==
    /\ CanRun(Cb("child_watcher"))
    /\ ready' = After(<<Cb("process_exited")>>)
    /\ batch' = batch - 1
    /\ UNCHANGED <<test, pc, raised, now, running, stopping, timers, root, task, fut,
                   taskTestVars, procVars, ioVars>>

\* the return code of a child: 0, or the negated signal number (SIGINT is 2)
ReturnCode(c) == IF c.signals # <<>> THEN "-2" ELSE "0"

\* BaseSubprocessTransport._process_exited
RunProcessExited ==
    /\ CanRun(Cb("process_exited"))
    /\ LET pr == [proc EXCEPT !.returncode = ReturnCode(child)]
       IN  /\ proc' = [pr EXCEPT !.finished = pr.finished \/ TryFinish(pr) # <<>>]
           /\ ready' = After(TryFinish(pr))
    /\ batch' = batch - 1
    /\ UNCHANGED <<test, pc, raised, now, running, stopping, timers, root, task, fut,
                   taskTestVars, child, ioVars>>

\* loop._add_reader(fileno, _read_ready), scheduled by _UnixWritePipeTransport
RunAddReader ==
    /\ CanRun(Cb("add_reader"))
    /\ proc' = [proc EXCEPT !.reader = ~proc.closing]
    /\ ready' = After(<<>>)
    /\ batch' = batch - 1
    /\ UNCHANGED <<test, pc, raised, now, running, stopping, timers, root, task, fut,
                   taskTestVars, child, ioVars>>

\* _UnixWritePipeTransport._read_ready: the pipe was closed by its peer; _close()
RunReadReady ==
    /\ CanRun(Cb("read_ready"))
    /\ proc' = [proc EXCEPT !.closing = TRUE, !.reader = FALSE]
    /\ ready' = After(IF proc.closing THEN <<>> ELSE <<Cb("pipe_lost")>>)
    /\ batch' = batch - 1
    /\ UNCHANGED <<test, pc, raised, now, running, stopping, timers, root, task, fut,
                   taskTestVars, child, ioVars>>

\* _UnixWritePipeTransport._call_connection_lost:
\* WriteSubprocessPipeProto.connection_lost, transport._pipe_connection_lost
RunPipeLost ==
    /\ CanRun(Cb("pipe_lost"))
    /\ LET pr == [proc EXCEPT !.disconnected = proc.disconnected \cup {0}]
       IN  /\ proc' = [pr EXCEPT !.finished = pr.finished \/ TryFinish(pr) # <<>>]
           /\ ready' = After(<<Cb("proto_pipe_lost")>> \o TryFinish(pr))
    /\ batch' = batch - 1
    /\ UNCHANGED <<test, pc, raised, now, running, stopping, timers, root, task, fut,
                   taskTestVars, child, ioVars>>

\* SubprocessStreamProtocol.pipe_connection_lost(0, exc): connection_lost(exc)
RunProtoPipeLost ==
    /\ CanRun(Cb("proto_pipe_lost"))
    /\ proc' = [proc EXCEPT !.connLost = TRUE]
    /\ ready' = After(<<>>)
    /\ batch' = batch - 1
    /\ UNCHANGED <<test, pc, raised, now, running, stopping, timers, root, task, fut,
                   taskTestVars, child, ioVars>>

\* BaseSubprocessTransport._call_connection_lost: wake the futures of wait()
RunConnLost ==
    /\ CanRun(Cb("conn_lost"))
    /\ IF fut["exitw"] = "pending"
       THEN /\ fut' = [fut EXCEPT !["exitw"] = "done"]
            /\ ready' = After(Wakeups(task, "exitw"))
       ELSE /\ ready' = After(<<>>)
            /\ UNCHANGED fut
    /\ batch' = batch - 1
    /\ UNCHANGED <<test, pc, raised, now, running, stopping, timers, root, task,
                   taskTestVars, procVars, ioVars>>

\* BaseSubprocessTransport._connect_pipes, the task the transport starts
StepConn ==
    /\ CanRun(Step("conn")) /\ task["conn"].st = "pending"
    /\ IF task["conn"].pc = "start" /\ 0 \in proc.pipes
       THEN \* await loop.connect_write_pipe(...)
            /\ fut' = [fut EXCEPT !["waiter2"] = "pending"]
            /\ task' = Blocked(task, "conn", "waiter2", "piped")
            /\ ready' = After(<<Cb("add_reader"), Timer("waiter2")>>)
            /\ UNCHANGED proc
       ELSE \* the pending calls are flushed; waiter.set_result(None)
            /\ proc' = [proc EXCEPT !.pending = FALSE]
            /\ fut' = [fut EXCEPT !["waiter"] =
                          IF fut["waiter"] = "pending" THEN "done" ELSE @]
            /\ task' = Returned(task, "conn")
            /\ ready' = After(IF fut["waiter"] = "pending"
                              THEN Wakeups(task, "waiter") ELSE <<>>)
    /\ batch' = batch - 1
    /\ UNCHANGED <<test, pc, raised, now, running, stopping, timers, root,
                   taskTestVars, child, ioVars>>

\* Task.cancel() finds the task waiting for a plain future that is still pending
CancelHits(tk, ft, t) ==
    /\ tk[t].st = "pending"
    /\ tk[t].wait \in FutNames
    /\ ft[tk[t].wait] = "pending"

\* a cancel() that forgets the request when the task waits for nothing
TaskCancelTasksLost(tk, ft, t) == tk

\* Task.cancel(): the tasks afterwards
TaskCancelTasks(tk, ft, t) ==
    IF tk[t].st # "pending" \/ CancelHits(tk, ft, t)
    THEN tk
    ELSE [tk EXCEPT ![t].mustCancel = TRUE]

\* Task.cancel(): the futures afterwards
TaskCancelFuts(tk, ft, t) ==
    IF CancelHits(tk, ft, t) THEN [ft EXCEPT ![tk[t].wait] = "cancelled"] ELSE ft

\* a cancel() that marks the future and wakes nobody
TaskCancelReadyNone(tk, ft, t) == <<>>

\* Task.cancel(): the callbacks the cancelled future schedules
TaskCancelReady(tk, ft, t) ==
    IF CancelHits(tk, ft, t) THEN Wakeups(tk, tk[t].wait) ELSE <<>>

----------------------------------------------------------------------------
(* task_demo.py: test_cancel_subprocess *)

\* event_loop = asyncio.new_event_loop(); canceled = False; events = [];
\* event_loop.run_until_complete(_main())
CsStart ==
    /\ test = "cancel" /\ pc = "start"
    /\ canceled' = FALSE
    /\ events' = <<>>
    /\ task' = CreateTask(task, "main")
    /\ ready' = <<Step("main")>>
    /\ RunUntilComplete("main", "cs_ruc")
    /\ UNCHANGED <<test, raised, now, timers, fut, strbuf, upd_i, wf, timedOut, cnt,
                   bodyRuns, result, errmsg, procVars, ioVars>>

\* _main, up to its next await or to its end
StepMain ==
    /\ test = "cancel"
    /\ CanRun(Step("main")) /\ task["main"].st = "pending"
    /\ \/ /\ task["main"].pc = "start"
          /\ events' = Append(events, 1)
          /\ fut' = [fut EXCEPT !["sleep_main"] = "pending"]
          /\ timers' = SleepTimers("sleep_main", MainSleep)
          /\ task' = Blocked(CreateTask(task, "slp"), "main", "sleep_main", "m1")
          /\ ready' = After(<<Step("slp")>>)
       \/ /\ task["main"].pc = "m1"
          /\ events' = events \o <<2, 3>>
          /\ fut' = [TaskCancelFuts(task, fut, "slp") EXCEPT !["sleep_main"] = "pending"]
          /\ timers' = SleepTimers("sleep_main", MainSleep)
          /\ task' = Blocked(TaskCancelTasks(task, fut, "slp"), "main", "sleep_main", "m2")
          /\ ready' = After(TaskCancelReady(task, fut, "slp"))
       \/ /\ task["main"].pc = "m2"
          /\ events' = Append(events, 5)
          /\ task' = Returned(task, "main")
          /\ ready' = After(DoneCallbacks(task, "main"))
          /\ UNCHANGED <<fut, timers>>
    /\ batch' = batch - 1
    /\ UNCHANGED <<test, pc, raised, now, running, stopping, root, strbuf, upd_i, wf,
                   timedOut, canceled, cnt, bodyRuns, result, errmsg, procVars, ioVars>>

\* Process.send_signal: the signal reaches a child that has not been reaped;
\* seen is the list of events at the time of the call
SendSignal(c, pr, sig, seen) ==
    IF pr.returncode = "none"
    THEN [c EXCEPT !.signals = Append(c.signals, [sig |-> sig, seen |-> seen])]
    ELSE c

\* a handler that records the event before it signals the child
SleepHandlerLate(c, pr, evs) ==
    [child |-> SendSignal(c, pr, "SIGINT", Append(evs, 4)),
     canceled |-> TRUE,
     events |-> Append(evs, 4)]

\* the except asyncio.CancelledError clause of _sleep, entered with p set
SleepHandler(c, pr, evs) ==
    [child |-> SendSignal(c, pr, "SIGINT", evs),
     canceled |-> TRUE,
     events |-> Append(evs, 4)]

\* _sleep, up to its next await or to its end
StepSleep ==
    /\ test = "cancel"
    /\ CanRun(Step("slp")) /\ task["slp"].st = "pending"
    /\ \/ /\ task["slp"].pc = "start"
          /\ IF Thrown("slp")
             THEN \* cancelled before p is set: p.send_signal on None
                  /\ task' = Raised(task, "slp", "AttributeError")
                  /\ ready' = After(DoneCallbacks(task, "slp"))
                  /\ UNCHANGED <<fut, child, proc>>
             ELSE /\ child' = Spawned(SleepChildLife)
                  /\ proc' = NewProc({})
                  /\ fut' = [fut EXCEPT !["waiter"] = "pending"]
                  /\ task' = Blocked(CreateTask(task, "conn"), "slp", "waiter", "spawned")
                  /\ ready' = After(<<Step("conn")>>)
          /\ UNCHANGED <<canceled, events>>
       \/ /\ task["slp"].pc = "spawned"
          /\ IF Thrown("slp")
             THEN /\ task' = Raised(task, "slp", "AttributeError")
                  /\ ready' = After(DoneCallbacks(task, "slp"))
                  /\ UNCHANGED fut
             ELSE IF proc.returncode # "none"
             THEN /\ task' = Returned(task, "slp")
                  /\ ready' = After(DoneCallbacks(task, "slp"))
                  /\ UNCHANGED fut
             ELSE /\ fut' = [fut EXCEPT !["exitw"] = "pending"]
                  /\ task' = Blocked(task, "slp", "exitw", "waited")
                  /\ ready' = After(<<>>)
          /\ UNCHANGED <<canceled, events, child, proc>>
       \/ /\ task["slp"].pc = "waited"
          /\ IF Thrown("slp")
             THEN /\ child' = SleepHandler(child, proc, events).child
                  /\ canceled' = SleepHandler(child, proc, events).canceled
                  /\ events' = SleepHandler(child, proc, events).events
             ELSE UNCHANGED <<child, canceled, events>>
          /\ task' = Returned(task, "slp")
          /\ ready' = After(DoneCallbacks(task, "slp"))
          /\ UNCHANGED <<fut, proc>>
    /\ batch' = batch - 1
    /\ UNCHANGED <<test, pc, raised, now, running, stopping, timers, root, strbuf,
                   upd_i, wf, timedOut, cnt, bodyRuns, result, errmsg, ioVars>>

\* assertTrue(canceled); assertListEqual(events, [1, 2, 3, 4, 5])
CsAfter ==
    /\ pc = "cs_after"
    /\ raised' = IF canceled /\ events = <<1, 2, 3, 4, 5>>
                 THEN raised ELSE "AssertionError"
    /\ pc' = "done"
    /\ UNCHANGED <<test, loopVars, taskTestVars, procVars, ioVars>>

----------------------------------------------------------------------------
(* subprocess_demo.py: test_create_subprocess_exec_errors *)

\* asyncio.run(coro): a new loop, the coroutine as its main task, run to completion
AsyncioRun(t, next) ==
    /\ task' = CreateTask(task, t)
    /\ ready' = <<Step(t)>>
    /\ RunUntilComplete(t, next)

\* self.assertRaises(asyncio.CancelledError, asyncio.run, _cancel_error())
CeStart ==
    /\ test = "cancelerr" /\ pc = "start"
    /\ AsyncioRun("main", "ar_run")
    /\ UNCHANGED <<test, raised, now, timers, fut, taskTestVars, procVars, ioVars>>

\* _cancel_error, up to its next await or to its end
StepCancelError ==
    /\ test = "cancelerr"
    /\ CanRun(Step("main")) /\ task["main"].st = "pending"
    /\ \/ /\ task["main"].pc = "start"
          /\ child' = Spawned(CancelChildLife)
          /\ proc' = NewProc({})
          /\ fut' = [fut EXCEPT !["waiter"] = "pending"]
          /\ task' = Blocked(CreateTask(task, "conn"), "main", "waiter", "spawned")
          /\ ready' = After(<<Step("conn")>>)
       \/ /\ task["main"].pc = "spawned"
          \* t = asyncio.create_task(p.wait()); t.cancel(); await t
          /\ LET tk == CreateTask(task, "wt")
             IN  /\ task' = Blocked(TaskCancelTasks(tk, fut, "wt"), "main", "wt", "awaited")
                 /\ fut' = TaskCancelFuts(tk, fut, "wt")
                 /\ ready' = After(<<Step("wt")>> \o TaskCancelReady(tk, fut, "wt"))
          /\ UNCHANGED <<child, proc>>
       \/ /\ task["main"].pc = "awaited"
          /\ task' = IF Thrown("main")
                     THEN Raised(task, "main", "CancelledError")
                     ELSE Returned(task, "main")
          /\ ready' = After(DoneCallbacks(task, "main"))
          /\ UNCHANGED <<fut, child, proc>>
    /\ batch' = batch - 1
    /\ UNCHANGED <<test, pc, raised, now, running, stopping, timers, root,
                   taskTestVars, ioVars>>

\* the task t around p.wait(): thrown into before its first step, the coroutine
\* never enters its body
StepWait ==
    /\ CanRun(Step("wt")) /\ task["wt"].st = "pending"
    /\ IF Thrown("wt")
       THEN /\ task' = Raised(task, "wt", "CancelledError")
            /\ ready' = After(DoneCallbacks(task, "wt"))
            /\ UNCHANGED <<fut, bodyRuns>>
       ELSE IF task["wt"].pc = "start" /\ proc.returncode = "none"
       THEN /\ fut' = [fut EXCEPT !["exitw"] = "pending"]
            /\ task' = Blocked(task, "wt", "exitw", "waited")
            /\ ready' = After(<<>>)
            /\ bodyRuns' = bodyRuns + 1
       ELSE /\ task' = Returned(task, "wt")
            /\ ready' = After(DoneCallbacks(task, "wt"))
            /\ bodyRuns' = IF task["wt"].pc = "start" THEN bodyRuns + 1 ELSE bodyRuns
            /\ UNCHANGED fut
    /\ batch' = batch - 1
    /\ UNCHANGED <<test, pc, raised, now, running, stopping, timers, root, strbuf,
                   upd_i, wf, timedOut, events, canceled, cnt, result, errmsg,
                   procVars, ioVars>>

\* self.assertRaises(ConnectionResetError, asyncio.run, _connection_reset_error())
CrStart ==
    /\ test = "connreset" /\ pc = "start"
    /\ AsyncioRun("main", "ar_run")
    /\ UNCHANGED <<test, raised, now, timers, fut, taskTestVars, procVars, ioVars>>

\* os.write on the stdin pipe fails with EPIPE once the child, its only reader, is gone
PipeBroken(c) == c.st = "exited"

\* StreamWriter.write -> _UnixWritePipeTransport.write: the transport afterwards
WriteProc(pr, c) ==
    IF pr.closing THEN pr
    ELSE IF PipeBroken(c) THEN [pr EXCEPT !.closing = TRUE, !.reader = FALSE]
    ELSE pr

\* ... the bytes that reach the child
WriteChild(pr, c, data) ==
    IF ~pr.closing /\ ~PipeBroken(c) THEN [c EXCEPT !.stdin = Append(c.stdin, data)]
    ELSE c

\* ... the callback a fatal write error schedules (_close -> _call_connection_lost)
WriteReady(pr, c) ==
    IF ~pr.closing /\ PipeBroken(c) THEN <<Cb("pipe_lost")>> ELSE <<>>

\* FlowControlMixin._drain_helper
DrainHelper(pr) == IF pr.connLost THEN "ConnectionResetError" ELSE "none"

\* _connection_reset_error, up to its next await or to its end
StepConnReset ==
    /\ test = "connreset"
    /\ CanRun(Step("main")) /\ task["main"].st = "pending"
    /\ \/ /\ task["main"].pc = "start"
          /\ child' = Spawned(TrueChildLife)
          /\ proc' = NewProc({0})
          /\ fut' = [fut EXCEPT !["waiter"] = "pending"]
          /\ task' = Blocked(CreateTask(task, "conn"), "main", "waiter", "spawned")
          /\ ready' = After(<<Step("conn")>>)
       \/ /\ task["main"].pc = "spawned" /\ proc.returncode = "none"
          \* await p.wait(): the child has not been reaped yet
          /\ fut' = [fut EXCEPT !["exitw"] = "pending"]
          /\ task' = Blocked(task, "main", "exitw", "waited")
          /\ ready' = After(<<>>)
          /\ UNCHANGED <<child, proc>>
       \/ /\ \/ task["main"].pc = "spawned" /\ proc.returncode # "none"
             \/ task["main"].pc = "waited"
          \* p.stdin.write(b"hello"); await p.stdin.drain()
          /\ proc' = WriteProc(proc, child)
          /\ child' = WriteChild(proc, child, "hello")
          /\ IF WriteProc(proc, child).closing
             THEN \* await sleep(0): a bare yield
                  /\ task' = [task EXCEPT !["main"].pc = "yielded", !["main"].wait = "none"]
                  /\ ready' = After(WriteReady(proc, child) \o <<Step("main")>>)
             ELSE /\ task' = IF DrainHelper(proc) = "none"
                             THEN Returned(task, "main")
                             ELSE Raised(task, "main", DrainHelper(proc))
                  /\ ready' = After(DoneCallbacks(task, "main"))
          /\ UNCHANGED fut
       \/ /\ task["main"].pc = "yielded"
          /\ task' = IF DrainHelper(proc) = "none"
                     THEN Returned(task, "main")
                     ELSE Raised(task, "main", DrainHelper(proc))
          /\ ready' = After(DoneCallbacks(task, "main"))
          /\ UNCHANGED <<fut, child, proc>>
    /\ batch' = batch - 1
    /\ UNCHANGED <<test, pc, raised, now, running, stopping, timers, root,
                   taskTestVars, ioVars>>

----------------------------------------------------------------------------
(* coroutine_demo.py and runners_demo.py *)

\* a call that runs the body at once
CoroutineCallEager(c, n) == c + n

\* co = incN(2): calling a coroutine function makes a coroutine object; the
\* counter is what it was
CoroutineCall(c, n) == c

\* the body of incN: nonlocal N; N += n; return N
IncBody(c, n) == c + n

\* N = 1; co = incN(2)
CoStart ==
    /\ test = "coro" /\ pc = "start"
    /\ cnt' = CoroutineCall(1, IncArg)
    /\ pc' = "co_created"
    /\ UNCHANGED <<test, raised, loopVars, strbuf, upd_i, wf, timedOut, events,
                   canceled, bodyRuns, result, errmsg, procVars, ioVars>>

\* assertEqual(N, 1); asyncio.run(co)
CoRun ==
    /\ pc = "co_created"
    /\ IF cnt = 1
       THEN /\ AsyncioRun("incN", "co_run")
            /\ UNCHANGED raised
       ELSE /\ raised' = "AssertionError"
            /\ pc' = "done"
            /\ UNCHANGED <<task, ready, root, running, stopping, batch>>
    /\ UNCHANGED <<test, now, timers, fut, taskTestVars, procVars, ioVars>>

\* the only step of incN
StepIncN ==
    /\ CanRun(Step("incN")) /\ task["incN"].st = "pending"
    /\ cnt' = IncBody(cnt, IncArg)
    /\ bodyRuns' = bodyRuns + 1
    /\ result' = IncBody(cnt, IncArg)
    /\ task' = Returned(task, "incN")
    /\ ready' = After(DoneCallbacks(task, "incN"))
    /\ batch' = batch - 1
    /\ UNCHANGED <<test, pc, raised, now, running, stopping, timers, root, fut,
                   strbuf, upd_i, wf, timedOut, events, canceled, errmsg,
                   procVars, ioVars>>

\* assertEqual(N, 3)
CoAfter ==
    /\ pc = "co_after"
    /\ raised' = IF cnt = 3 THEN raised ELSE "AssertionError"
    /\ pc' = "done"
    /\ UNCHANGED <<test, loopVars, taskTestVars, procVars, ioVars>>

\* self._inc(n=1)
RunArg == 1

\* coro = self._inc(n=1); result = asyncio.run(coro)
RnStart ==
    /\ test = "run" /\ pc = "start"
    /\ AsyncioRun("inc", "rn_run")
    /\ UNCHANGED <<test, raised, now, timers, fut, taskTestVars, procVars, ioVars>>

\* the only step of _inc: return n + 1
StepInc ==
    /\ CanRun(Step("inc")) /\ task["inc"].st = "pending"
    /\ bodyRuns' = bodyRuns + 1
    /\ result' = RunArg + 1
    /\ task' = Returned(task, "inc")
    /\ ready' = After(DoneCallbacks(task, "inc"))
    /\ batch' = batch - 1
    /\ UNCHANGED <<test, pc, raised, now, running, stopping, timers, root, fut,
                   strbuf, upd_i, wf, timedOut, events, canceled, cnt, errmsg,
                   procVars, ioVars>>

\* assertEqual(result, 2)
RnAfter ==
    /\ pc = "rn_after"
    /\ raised' = IF result = 2 THEN raised ELSE "AssertionError"
    /\ pc' = "done"
    /\ UNCHANGED <<test, loopVars, taskTestVars, procVars, ioVars>>

----------------------------------------------------------------------------
(* io_demo.py: TestFileIO, closefd *)

\* the descriptors 0, 1 and 2 are open in every process
StdFds == {0, 1, 2}

\* open() returns the lowest descriptor that is not in use
LowestFree(tab) == CHOOSE n \in 0..(MaxFd + 1) : n \notin tab /\ \A m \in 0..(n - 1) : m \in tab

\* os.close(fd)
OsClose(tab, fd) == [tab |-> tab \ {fd}, err |-> IF fd \in tab THEN "none" ELSE "EBADF"]

\* a close() that ignores closefd
FileIOCloseAlways(tab, f) ==
    IF f.closed THEN [tab |-> tab, err |-> "none"] ELSE OsClose(tab, f.fd)

\* FileIO.close(): the descriptor is closed only when the object owns it
FileIOClose(tab, f) ==
    IF f.closed THEN [tab |-> tab, err |-> "none"]
    ELSE IF f.closefd THEN OsClose(tab, f.fd)
    ELSE [tab |-> tab, err |-> "none"]

\* ftmp, content = self._set_up(...); buffered_reader = ftmp.open(mode="rb")
CfOpen ==
    /\ test = "closefd" /\ pc = "start"
    /\ \E others \in SUBSET (3..MaxFd) :
          LET tab == StdFds \cup others
          IN  /\ fdtab' = tab \cup {LowestFree(tab)}
              /\ rd' = [fd |-> LowestFree(tab), closefd |-> TRUE, closed |-> FALSE,
                        err |-> "none"]
    /\ pc' = "cf_opened"
    /\ UNCHANGED <<test, raised, loopVars, taskTestVars, procVars, fio, bio, view, r1, ba>>

\* f = io.FileIO(buffered_reader.fileno(), mode="r", closefd=..., opener=None)
CfFileIO ==
    /\ pc = "cf_opened"
    /\ \E c \in BOOLEAN :
          fio' = [fd |-> rd.fd, closefd |-> c, closed |-> FALSE, err |-> "none"]
    /\ pc' = "cf_made"
    /\ UNCHANGED <<test, raised, loopVars, taskTestVars, procVars, fdtab, rd, bio,
                   view, r1, ba>>

\* f.close(); self.assertFalse(buffered_reader.closed)
CfCloseF ==
    /\ pc = "cf_made"
    /\ fdtab' = FileIOClose(fdtab, fio).tab
    /\ fio' = [fio EXCEPT !.closed = TRUE, !.err = FileIOClose(fdtab, fio).err]
    /\ IF rd.closed
       THEN raised' = "AssertionError" /\ pc' = "done"
       ELSE UNCHANGED raised /\ pc' = "cf_fclosed"
    /\ UNCHANGED <<test, loopVars, taskTestVars, procVars, rd, bio, view, r1, ba>>

\* buffered_reader.close(), which closes the reader's own FileIO, and the
\* assertion about it: assertRaisesRegex(OSError, EBADF) or assertTrue(closed)
CfCloseReader ==
    /\ pc = "cf_fclosed"
    /\ fdtab' = FileIOClose(fdtab, rd).tab
    /\ rd' = [rd EXCEPT !.closed = TRUE, !.err = FileIOClose(fdtab, rd).err]
    /\ raised' = IF fio.closefd = (FileIOClose(fdtab, rd).err = "EBADF")
                 THEN raised ELSE "AssertionError"
    /\ pc' = "done"
    /\ UNCHANGED <<test, loopVars, taskTestVars, procVars, fio, bio, view, r1, ba>>

----------------------------------------------------------------------------
(* io_demo.py: TestBytesIO *)

\* the byte values the model draws from: b"0" and b"a"
ByteVals == {48, 97}

\* every bytes object of n bytes
BytesOfLen(n) == [1..n -> ByteVals]

\* every bytes object of at most n bytes
BytesUpTo(n) == UNION {BytesOfLen(k) : k \in 0..n}

None == [none |-> TRUE, v |-> 0]
Some(n) == [none |-> FALSE, v |-> n]

\* s = io.BytesIO(initial_bytes=data)
NewBytesIO(data) == [buf |-> data, pos |-> 0]

\* BytesIO.getvalue()
GetValue(s) == s.buf

Min(a, b) == IF a < b THEN a ELSE b
Max(a, b) == IF a > b THEN a ELSE b

\* an index of a sequence of n items: negative ones count from the end;
\* -1 stands for IndexError
PyIndex(i, n) ==
    LET k == IF i < 0 THEN i + n ELSE i
    IN  IF k < 0 \/ k >= n THEN -1 ELSE k

\* one bound of a slice of a sequence of n items (PySlice_AdjustIndices, step 1)
PyBound(b, n, dflt) ==
    IF b.none THEN dflt
    ELSE IF b.v < 0 THEN Max(b.v + n, 0)
    ELSE Min(b.v, n)

\* seq[i]
PyGetItem(seq, i) == seq[PyIndex(i, Len(seq)) + 1]

\* seq[i:j]
PyGetSlice(seq, i, j) ==
    LET lo == PyBound(i, Len(seq), 0)
        hi == PyBound(j, Len(seq), Len(seq))
    IN  SubSeq(seq, lo + 1, Max(lo, hi))

\* a view that is a copy: the assignment does not reach the stream
ViewSetItemCopy(s, i, v) == s

\* view[i] = v, where view = s.getbuffer() shares the memory of s
ViewSetItem(s, i, v) == [s EXCEPT !.buf[PyIndex(i, Len(s.buf)) + 1] = v]

\* view[i:j] = data, for data as long as the slice
ViewSetSlice(s, i, j, data) ==
    LET lo == PyBound(i, Len(s.buf), 0)
    IN  [s EXCEPT !.buf = [k \in 1..Len(s.buf) |->
                              IF k > lo /\ k <= lo + Len(data)
                              THEN data[k - lo] ELSE s.buf[k]]]

\* the length of the slice view[i:j]
SliceLen(n, i, j) == Max(0, PyBound(j, n, n) - PyBound(i, n, 0))

\* s = io.BytesIO(initial_bytes=initial_bytes); view = s.getbuffer()
GbStart ==
    /\ test = "getbuffer" /\ pc = "start"
    /\ \E data \in BytesUpTo(MaxBytesLen) :
          /\ bio' = NewBytesIO(data)
          /\ view' = [init |-> data, expect |-> data, writes |-> 0, err |-> "none"]
    /\ pc' = "gb_view"
    /\ UNCHANGED <<test, raised, loopVars, taskTestVars, procVars, fdtab, rd, fio, r1, ba>>

\* view[i] = v
GbSetItem ==
    /\ pc = "gb_view" /\ view.writes < MaxWrites
    /\ \E i \in -(MaxBytesLen + 1)..MaxBytesLen, v \in ByteVals :
          IF PyIndex(i, Len(bio.buf)) = -1
          THEN /\ view' = [view EXCEPT !.err = "IndexError", !.writes = @ + 1]
               /\ UNCHANGED bio
          ELSE /\ bio' = ViewSetItem(bio, i, v)
               /\ view' = [view EXCEPT !.err = "none", !.writes = @ + 1,
                              !.expect[(IF i < 0 THEN i + Len(view.init) ELSE i) + 1] = v]
    /\ UNCHANGED <<test, pc, raised, loopVars, taskTestVars, procVars, fdtab, rd, fio, r1, ba>>

SliceBounds == {None} \cup {Some(n) : n \in -(MaxBytesLen + 1)..(MaxBytesLen + 1)}

\* view[i:j] = data
GbSetSlice ==
    /\ pc = "gb_view" /\ view.writes < MaxWrites
    /\ \E i, j \in SliceBounds :
       \E data \in BytesOfLen(SliceLen(Len(bio.buf), i, j))
                    \cup BytesOfLen(SliceLen(Len(bio.buf), i, j) + 1) :
          IF Len(data) # SliceLen(Len(bio.buf), i, j)
          THEN /\ view' = [view EXCEPT !.err = "ValueError", !.writes = @ + 1]
               /\ UNCHANGED bio
          ELSE /\ bio' = ViewSetSlice(bio, i, j, data)
               /\ view' = [view EXCEPT !.err = "none", !.writes = @ + 1,
                              !.expect = [k \in 1..Len(view.init) |->
                                  IF /\ k - 1 >= PyBound(i, Len(view.init), 0)
                                     /\ k - 1 < PyBound(j, Len(view.init), Len(view.init))
                                  THEN data[k - PyBound(i, Len(view.init), 0)]
                                  ELSE view.expect[k]]]
    /\ UNCHANGED <<test, pc, raised, loopVars, taskTestVars, procVars, fdtab, rd, fio, r1, ba>>

\* a read that takes a negative size for zero
ReadNegativeIsZero(s, size) ==
    LET n == Len(s.buf) - s.pos
        want == IF size.none THEN -1 ELSE size.v
        len == IF want < 0 THEN 0 ELSE IF want > n THEN Max(n, 0) ELSE want
    IN  SubSeq(s.buf, s.pos + 1, s.pos + len)

\* BytesIO.read(size): size None or negative or too large is cut to what is left
Read(s, size) ==
    LET n == Len(s.buf) - s.pos
        want == IF size.none THEN -1 ELSE size.v
        len == IF want < 0 \/ want > n THEN Max(n, 0) ELSE want
    IN  SubSeq(s.buf, s.pos + 1, s.pos + len)

\* BytesIO.read1(size) is read(size)
Read1(s, size) == Read(s, size)

Sizes == {None} \cup {Some(n) : n \in -2..(MaxBytesLen + 2)}

\* _read1(size): s = io.BytesIO(initial_bytes=initial_bytes); return s.read1(size)
R1Call ==
    /\ test = "read1" /\ pc = "start"
    /\ \E data \in BytesUpTo(MaxBytesLen), size \in Sizes :
          r1' = [data |-> data, size |-> size, out |-> Read1(NewBytesIO(data), size)]
    /\ pc' = "done"
    /\ UNCHANGED <<test, raised, loopVars, taskTestVars, procVars, fdtab, rd, fio,
                   bio, view, ba>>

----------------------------------------------------------------------------
(* bytearray(source, encoding, errors) with a string source.  A string is  *)
(* the sequence of its code points, a bytearray the sequence of its bytes. *)

\* "ordinal not in range(128)": the ascii codec encodes the code points below
AsciiLimit == 128

\* "?".encode("ascii")
ReplaceChar == <<63>>

\* the literals of the tests: "hello", "ħĕÎÎō", "ħ", and the two-character
\* literal of codecs_demo.py (U+00C4 U+00A7)
Hello == <<104, 101, 108, 108, 111>>
NonAscii5 == <<295, 277, 206, 206, 333>>
HBar == <<295>>
CodecsS == <<196, 167>>

\* the characters other sources are made of: "?", "h", U+007F, U+0080, "ħ"
CodePoints == {63, 104, 127, 128, 295}

StrOfLen(n) == [1..n -> CodePoints]

Sources == UNION {StrOfLen(k) : k \in 0..MaxStrLen}
               \cup {Hello, NonAscii5, HBar, CodecsS}

\* the encoding argument: omitted, or "ascii"
Encodings == {"none", "ascii"}

\* the errors argument: omitted, or one of the schemes the tests name
ErrorArgs == {"default", "strict", "ignore", "replace"}

\* what a constructor call gives: the bytearray, or the exception with the
\* range [start, end) of the characters it reports
NoResult == [exc |-> "none", out |-> <<>>, start |-> 0, end |-> 0]

\* a scheme table in which an omitted errors argument means "ignore"
SchemeDefaultIgnore(errors) == IF errors = "default" THEN "ignore" ELSE errors

\* errors defaults to "strict"
Scheme(errors) == IF errors = "default" THEN "strict" ELSE errors

CanEncode(c) == c < AsciiLimit

\* the position after the run of unencodable characters that starts at i
RECURSIVE RunEnd(_, _)
RunEnd(s, i) ==
    IF i <= Len(s) /\ ~CanEncode(s[i]) THEN RunEnd(s, i + 1) ELSE i

\* the ascii encoder from position i on: an encodable character is copied; a
\* run of unencodable ones is reported (strict), dropped (ignore) or replaced
\* character by character (replace)
RECURSIVE AsciiEncode(_, _, _)
AsciiEncode(s, scheme, i) ==
    IF i > Len(s) THEN NoResult
    ELSE IF CanEncode(s[i])
    THEN LET r == AsciiEncode(s, scheme, i + 1)
         IN  IF r.exc # "none" THEN r ELSE [r EXCEPT !.out = <<s[i]>> \o @]
    ELSE LET e == RunEnd(s, i)
         IN  IF scheme = "strict"
             THEN [exc |-> "UnicodeEncodeError", out |-> <<>>,
                   start |-> i - 1, end |-> e - 1]
             ELSE LET r == AsciiEncode(s, scheme, e)
                      rep == IF scheme = "replace"
                             THEN [k \in 1..(e - i) |-> ReplaceChar[1]]
                             ELSE <<>>
                  IN  [r EXCEPT !.out = rep \o @]

\* bytearray(source=s, encoding=..., errors=...): a string without an encoding
\* is a TypeError whatever errors is
Bytearray(s, encoding, errors) ==
    IF encoding = "none"
    THEN [exc |-> "TypeError", out |-> <<>>, start |-> 0, end |-> 0]
    ELSE AsciiEncode(s, Scheme(errors), 1)

\* one constructor call of test_bytearray_str or test_error_handling_schemes
BaCall ==
    /\ test = "bytearray" /\ pc = "start"
    /\ \E s \in Sources, encoding \in Encodings, errors \in ErrorArgs :
          ba' = [source |-> s, encoding |-> encoding, errors |-> errors,
                 res |-> Bytearray(s, encoding, errors)]
    /\ pc' = "done"
    /\ UNCHANGED <<test, raised, loopVars, taskTestVars, procVars, fdtab, rd, fio,
                   bio, view, r1>>

----------------------------------------------------------------------------
Init ==
    /\ test \in Tests
    /\ pc = "start"
    /\ now = 0
    /\ running = FALSE /\ stopping = FALSE /\ batch = 0
    /\ ready = <<>> /\ timers = {} /\ root = "none"
    /\ task = [t \in TaskNames |-> NoTask]
    /\ fut = [f \in FutNames |-> "none"]
    /\ raised = "none"
    /\ strbuf = <<>> /\ upd_i = 0
    /\ wf = [i |-> 0, timed_out |-> TRUE, sync |-> TRUE, phase |-> 0]
    /\ timedOut = <<>>
    /\ events = <<>> /\ canceled = FALSE
    /\ cnt = 1 /\ bodyRuns = 0 /\ result = 0 /\ errmsg = "none"
    /\ child = NoChild
    /\ proc = NoProc
    /\ fdtab = StdFds
    /\ rd = [fd |-> -1, closefd |-> TRUE, closed |-> FALSE, err |-> "none"]
    /\ fio = [fd |-> -1, closefd |-> TRUE, closed |-> FALSE, err |-> "none"]
    /\ bio = [buf |-> <<>>, pos |-> 0]
    /\ view = [init |-> <<>>, expect |-> <<>>, writes |-> 0, err |-> "none"]
    /\ r1 = [data |-> <<>>, size |-> [none |-> TRUE, v |-> 0], out |-> <<>>]
    /\ ba = [source |-> <<>>, encoding |-> "none", errors |-> "default", res |-> NoResult]

Next ==
    \/ Select \/ Tick \/ RunTimer \/ RunStop \/ LoopStop
    \/ NrStart \/ WfSyncSleep \/ WfAsyncSleep \/ WfCheck \/ WfExhausted \/ WfReturn
    \/ StepUpd \/ StepDrv
    \/ NlStart \/ NlRun \/ StepIncA \/ NlAfter
    \/ ChildExit \/ WatcherNotify \/ RunChildWatcher \/ RunProcessExited
    \/ RunAddReader \/ RunReadReady \/ RunPipeLost \/ RunProtoPipeLost \/ RunConnLost
    \/ StepConn
    \/ CsStart \/ StepMain \/ StepSleep \/ CsAfter
    \/ CeStart \/ StepCancelError \/ StepWait \/ CrStart \/ StepConnReset
    \/ CoStart \/ CoRun \/ StepIncN \/ CoAfter \/ RnStart \/ StepInc \/ RnAfter
    \/ CfOpen \/ CfFileIO \/ CfCloseF \/ CfCloseReader
    \/ GbStart \/ GbSetItem \/ GbSetSlice \/ R1Call
    \/ BaCall

Spec == Init /\ [][Next]_vars

----------------------------------------------------------------------------
(* The claims. *)

Range(s) == {s[i] : i \in 1..Len(s)}

Thm_C2 ==
    test = "cancel" =>
        /\ IsPrefix(events, <<1, 2, 3, 4, 5>>)
        /\ (task["main"].st = "done" => canceled /\ events = <<1, 2, 3, 4, 5>>)
        /\ (pc = "done" => task["main"].st = "done" /\ raised = "none")

Wit_C2 == test = "cancel" /\ pc = "done" /\ events = <<1, 2, 3, 4, 5>> /\ canceled

\* C3: the handler of _sleep sends SIGINT to the child the task started before
\* it records event 4, and _sleep signals the child only after the task was
\* cancelled (task.cancel() is called between events 2 and 3).
Thm_C3 ==
    test = "cancel" =>
        /\ (4 \in Range(events) =>
               /\ child.st # "none"
               /\ Len(child.signals) = 1
               /\ child.signals[1].sig = "SIGINT"
               /\ 4 \notin Range(child.signals[1].seen))
        /\ (child.signals # <<>> =>
               /\ canceled
               /\ 2 \in Range(child.signals[1].seen)
               /\ task["slp"].st = "done")
        /\ (canceled => child.signals # <<>>)

Wit_C3 ==
    /\ test = "cancel" /\ canceled /\ 4 \in Range(events)
    /\ child.signals # <<>> /\ child.st = "exited"

\* C4: co = incN(2) does not run the body: N is still 1; N becomes 3 only when
\* asyncio.run(co) drives the coroutine, which runs the body exactly once.
Thm_C4 ==
    test = "coro" =>
        /\ bodyRuns <= 1
        /\ (bodyRuns = 0 => cnt = 1)
        /\ (bodyRuns = 1 => cnt = 3)
        /\ (pc \in {"start", "co_created"} => bodyRuns = 0)
        /\ (pc = "done" => bodyRuns = 1 /\ cnt = 3 /\ raised = "none")

Wit_C4 == test = "coro" /\ pc = "done" /\ cnt = 3 /\ bodyRuns = 1

\* C5: asyncio.create_task without a running loop raises RuntimeError ("no
\* running event loop") and does not run the body (A stays 1); a task created
\* on a new loop and run with run_until_complete runs the body once (A is 3).
Thm_C5 ==
    test = "noloop" =>
        /\ bodyRuns <= 1
        /\ (pc = "nl_assert1" =>
               /\ errmsg = "no running event loop"
               /\ cnt = 1 /\ bodyRuns = 0
               /\ task["incA"].st = "none" /\ ready = <<>>)
        /\ (pc = "done" => cnt = 3 /\ bodyRuns = 1 /\ raised = "none")

Wit_C5 ==
    /\ test = "noloop" /\ pc = "done" /\ cnt = 3
    /\ errmsg = "no running event loop"

\* C6: the task around p.wait() that is cancelled before its first step never
\* enters its body and never completes normally; awaiting it raises
\* CancelledError in _cancel_error, and asyncio.run lets it escape.
Thm_C6 ==
    test = "cancelerr" =>
        /\ bodyRuns = 0
        /\ task["wt"].st \in {"none", "pending", "cancelled"}
        /\ task["main"].st # "done"
        /\ (pc = "done" =>
               /\ raised = "CancelledError"
               /\ task["wt"].st = "cancelled"
               /\ task["main"].st = "cancelled")

Wit_C6 == test = "cancelerr" /\ pc = "done" /\ raised = "CancelledError"

\* C7: in _connection_reset_error the bytes written after p.wait() returned
\* are never delivered, and drain() raises ConnectionResetError, which escapes
\* from asyncio.run.
Claim_C7 ==
    (test = "connreset" /\ pc = "done") =>
        raised = "ConnectionResetError" /\ child.stdin = <<>>

\* C8: closing the FileIO closes the descriptor iff closefd is True; the
\* reader still reports closed == False; with closefd=True reader.close()
\* raises EBADF, with closefd=False it succeeds and the reader is closed.
Thm_C8 ==
    test = "closefd" =>
        /\ (pc = "cf_fclosed" =>
               /\ fio.closed /\ ~rd.closed
               /\ (rd.fd \notin fdtab) = fio.closefd)
        /\ (pc = "done" =>
               /\ raised = "none"
               /\ rd.fd \notin fdtab
               /\ IF fio.closefd THEN rd.err = "EBADF"
                  ELSE rd.err = "none" /\ rd.closed)

Wit_C8 == test = "closefd" /\ pc = "done" /\ fio.closefd /\ rd.err = "EBADF"

\* view[i]
ViewGetItem(s, i) == PyGetItem(s.buf, i)

\* view[i:j]
ViewGetSlice(s, i, j) == PyGetSlice(s.buf, i, j)

\* C9: before any write, view[i] and view[i:j] equal the same index or slice
\* of the initial bytes; after any writes through the view getvalue() is the
\* initial bytes with exactly the assigned positions replaced, as long as before.
Thm_C9 ==
    (test = "getbuffer" /\ pc = "gb_view") =>
        /\ GetValue(bio) = view.expect
        /\ Len(GetValue(bio)) = Len(view.init)
        /\ (view.writes = 0 =>
               /\ \A i \in -Len(view.init)..(Len(view.init) - 1) :
                      ViewGetItem(bio, i) = PyGetItem(view.init, i)
               /\ \A i, j \in SliceBounds :
                      ViewGetSlice(bio, i, j) = PyGetSlice(view.init, i, j))

Wit_C9 ==
    /\ test = "getbuffer" /\ view.writes = 2 /\ view.err = "none"
    /\ Len(bio.buf) = 3 /\ \A k \in 1..3 : bio.buf[k] # view.init[k]

\* C10: on a fresh BytesIO(data), read1(size) is all of data for size None or
\* negative, b"" for size 0, the first min(size, len(data)) bytes otherwise.
Thm_C10 ==
    (test = "read1" /\ pc = "done") =>
        IF r1.size.none \/ r1.size.v < 0 THEN r1.out = r1.data
        ELSE IF r1.size.v = 0 THEN r1.out = <<>>
        ELSE r1.out = SubSeq(r1.data, 1, Min(r1.size.v, Len(r1.data)))

Wit_C10 ==
    /\ test = "read1" /\ pc = "done" /\ ~r1.size.none
    /\ r1.size.v > 0 /\ r1.size.v < Len(r1.data) /\ Len(r1.out) = r1.size.v

\* C11: bytearray from a string without an encoding raises TypeError; with
\* ascii and a string of ascii characters only the result has one byte per
\* character, equal to its code point; for a one-character string ascii cannot
\* encode, "strict" and the default raise UnicodeEncodeError, "ignore" gives
\* an empty bytearray and "replace" gives exactly the ascii encoding of "?".
Thm_C11 ==
    (test = "bytearray" /\ pc = "done") =>
        /\ (ba.encoding = "none" => ba.res.exc = "TypeError")
        /\ (ba.encoding = "ascii" /\ (\A k \in 1..Len(ba.source) : ba.source[k] < 128) =>
               /\ ba.res.exc = "none"
               /\ Len(ba.res.out) = Len(ba.source)
               /\ \A k \in 1..Len(ba.source) : ba.res.out[k] = ba.source[k])
        /\ (ba.encoding = "ascii" /\ Len(ba.source) = 1 /\ ba.source[1] >= 128 =>
               /\ (ba.errors \in {"strict", "default"} =>
                      ba.res.exc = "UnicodeEncodeError")
               /\ (ba.errors = "ignore" => ba.res.exc = "none" /\ ba.res.out = <<>>)
               /\ (ba.errors = "replace" => ba.res.exc = "none" /\ ba.res.out = <<63>>))

Wit_C11 ==
    /\ test = "bytearray" /\ pc = "done" /\ ba.encoding = "ascii"
    /\ ba.source = <<295>> /\ ba.errors = "replace" /\ ba.res.out = <<63>>

=============================================================================
